---- MODULE Spec2Model ----
(***************************************************************************)
(* dpkg-builder: the fetch / classify / download / extract pipeline of     *)
(* src/unnamed/part_001 (the latest of the three iterations of main.go).   *)
(*                                                                         *)
(* Strings are TLA+ strings; Go's 0-based byte indices become 1-based      *)
(* character indices, and "not found" (-1 in Go) is 0 here, so that        *)
(* s[i+1:] is SubSeq(s, i+1, Len(s)) in both conventions.                  *)
(***************************************************************************)
EXTENDS Integers, Sequences, FiniteSets, TLC

VARIABLES
    pc,         \* position of the main goroutine (one process of dpkg-builder)
    cmdName,    \* the subcommand of the running process ("build" / "fetch")
    fresh,      \* the package directory did not exist when the process started
    dp,         \* the dpkgSrc of commandFetch
    links,      \* the href list returned by getLinks
    pos,        \* the number of links fillFromLinks has consumed / fetch's loop index
    fs,         \* the filesystem under the working directory: [dirs, files]
    calls,      \* the download calls made so far, each with what it did
    trace,      \* the externally visible steps of the running process, in order
    result,     \* how the process ended: [kind, msg]
    runs,       \* the number of processes started so far
    procState,  \* the dpkg-source subprocess: "none", "running", "exited"
    procOut,    \* everything the subprocess writes, as lines (blocks per line)
    toWrite,    \* the blocks the subprocess has still to write
    exitOK,     \* the subprocess's exit status is 0
    pipe,       \* the blocks in the kernel's pipe buffer
    pipeClosed, \* the parent closed the read end (cmd.Wait)
    reader,     \* the background goroutine: "none", "running", "stopped"
    scanBuf,    \* blocks of the current, still unterminated line held by the Scanner
    logged      \* the lines handed to log.Println, in order

vars == <<pc, cmdName, fresh, dp, links, pos, fs, calls, trace, result, runs,
          procState, procOut, toWrite, exitOK, pipe, pipeClosed, reader, scanBuf, logged>>

procVars == <<procState, procOut, toWrite, exitOK, pipe, pipeClosed, reader, scanBuf, logged>>

-----------------------------------------------------------------------------
(* Bounds of the model *)

\* the longest href list given to fillFromLinks on its own
MaxLinks == 3
\* the number of consecutive download calls of the download harness
MaxCalls == 3
\* the number of dpkg-builder processes run one after another in one directory
MaxRuns == 2
\* the pipe buffer, in blocks (the kernel's 64 KiB, scaled)
PipeCapacity == 2
\* bufio.MaxScanTokenSize, in blocks (64 KiB, scaled like PipeCapacity)
MaxScanTokenSize == 2
\* the subprocess writes at most this many lines ...
MaxLines == 2
\* ... of at most this many blocks each (the newline is in the last block): long
\* enough for a line that overflows the Scanner's buffer and then the pipe
MaxLineLen == MaxScanTokenSize + PipeCapacity + 1

-----------------------------------------------------------------------------
(* package strings *)

\* strings.HasSuffix
HasSuffix(s, suffix) ==
    /\ Len(s) >= Len(suffix)
    /\ SubSeq(s, Len(s) - Len(suffix) + 1, Len(s)) = suffix

\* strings.HasPrefix
HasPrefix(s, prefix) ==
    /\ Len(s) >= Len(prefix)
    /\ SubSeq(s, 1, Len(prefix)) = prefix

\* s[i:] of Go for the 1-based position i+1
From(s, i) == SubSeq(s, i, Len(s))

\* strings.Index for a one-character separator; 0 when absent
IndexByte(s, c) ==
    LET hits == {i \in 1..Len(s) : SubSeq(s, i, i) = c}
    IN  IF hits = {} THEN 0 ELSE CHOOSE i \in hits : \A j \in hits : i <= j

\* strings.LastIndex for a one-character separator; 0 when absent
LastIndex(s, c) ==
    LET hits == {i \in 1..Len(s) : SubSeq(s, i, i) = c}
    IN  IF hits = {} THEN 0 ELSE CHOOSE i \in hits : \A j \in hits : i >= j

\* strings.Contains
Contains(s, sub) ==
    \E i \in 1..(Len(s) - Len(sub) + 1) : SubSeq(s, i, i + Len(sub) - 1) = sub

\* strings.Count for a one-character separator
Count(s, c) == Cardinality({i \in 1..Len(s) : SubSeq(s, i, i) = c})

\* strings.Cut: <<before, after, found>>
Cut(s, c) ==
    LET i == IndexByte(s, c)
    IN  IF i = 0 THEN <<s, "", FALSE>>
        ELSE <<SubSeq(s, 1, i - 1), From(s, i + 1), TRUE>>

-----------------------------------------------------------------------------
(* dpkgSrc and the classifier *)

\* new(dpkgSrc): every field is the zero value
NewDpkgSrc == [Name |-> "", DSC |-> "", Orig |-> "", Debian |-> "", DscPath |-> ""]

\* a plausible slip: the .orig.tar.gz alternative is missing (as in main.go's filterLinks)
FillOneNoGz(d, l) ==
    IF HasSuffix(l, ".dsc") THEN [d EXCEPT !.DSC = l]
    ELSE IF HasSuffix(l, ".orig.tar.xz") THEN [d EXCEPT !.Orig = l]
    ELSE IF HasSuffix(l, ".debian.tar.xz") THEN [d EXCEPT !.Debian = l]
    ELSE d

\* the body of fillFromLinks' loop: the switch on one link
FillOne(d, l) ==
    IF HasSuffix(l, ".dsc") THEN [d EXCEPT !.DSC = l]
    ELSE IF HasSuffix(l, ".orig.tar.xz") \/ HasSuffix(l, ".orig.tar.gz")
         THEN [d EXCEPT !.Orig = l]
    ELSE IF HasSuffix(l, ".debian.tar.xz") THEN [d EXCEPT !.Debian = l]
    ELSE d

RECURSIVE FillFrom(_, _, _)
FillFrom(d, ls, k) ==
    IF k > Len(ls) THEN d ELSE FillFrom(FillOne(d, ls[k]), ls, k + 1)

\* dpkgSrc.fillFromLinks: the loop over all links
fillFromLinks(d, ls) == FillFrom(d, ls, 1)

-----------------------------------------------------------------------------
(* package net/url, as far as commandFetch and dpkgSrc.fetch use it.        *)
(* Percent-escapes, userinfo and upper-case scheme letters are outside the  *)
(* hrefs the model feeds in and are not modelled.                           *)

Letters == {"a","b","c","d","e","f","g","h","i","j","k","l","m",
            "n","o","p","q","r","s","t","u","v","w","x","y","z"}

SchemeChars == {"0","1","2","3","4","5","6","7","8","9","+","-","."}

\* url.getScheme: <<scheme, rest, ok>>
RECURSIVE GetSchemeAt(_, _)
GetSchemeAt(raw, i) ==
    IF i > Len(raw) THEN <<"", raw, TRUE>>
    ELSE LET c == SubSeq(raw, i, i)
         IN  IF c \in Letters THEN GetSchemeAt(raw, i + 1)
             ELSE IF c \in SchemeChars
                  THEN IF i = 1 THEN <<"", raw, TRUE>> ELSE GetSchemeAt(raw, i + 1)
             ELSE IF c = ":"
                  THEN IF i = 1 THEN <<"", "", FALSE>>
                       ELSE <<SubSeq(raw, 1, i - 1), From(raw, i + 1), TRUE>>
             ELSE <<"", raw, TRUE>>

getScheme(raw) == GetSchemeAt(raw, 1)

NoURL == [ok |-> FALSE, Scheme |-> "", Opaque |-> "", Host |-> "", Path |-> "",
          ForceQuery |-> FALSE, RawQuery |-> "", Fragment |-> ""]

\* url.Parse: the fragment is cut off first, then scheme, query, authority, path
Parse(rawURL) ==
    LET fr     == Cut(rawURL, "#")
        sch    == getScheme(fr[1])
        afterS == sch[2]
        force  == HasSuffix(afterS, "?") /\ Count(afterS, "?") = 1
        q      == IF force THEN <<SubSeq(afterS, 1, Len(afterS) - 1), "", TRUE>>
                  ELSE Cut(afterS, "?")
        rest   == q[1]
        u0     == [NoURL EXCEPT !.ok = TRUE, !.Scheme = sch[1], !.ForceQuery = force,
                                !.RawQuery = q[2], !.Fragment = fr[2]]
        auth   == Cut(From(rest, 3), "/")
    IN  IF ~sch[3] THEN NoURL
        ELSE IF ~HasPrefix(rest, "/") /\ sch[1] # ""
             THEN [u0 EXCEPT !.Opaque = rest]
        ELSE IF ~HasPrefix(rest, "/") /\ Contains(Cut(rest, "/")[1], ":")
             THEN NoURL
        ELSE IF HasPrefix(rest, "//") /\ (sch[1] # "" \/ ~HasPrefix(rest, "///"))
             THEN [u0 EXCEPT !.Host = auth[1],
                             !.Path = IF auth[3] THEN "/" \o auth[2] ELSE ""]
        ELSE [u0 EXCEPT !.Path = rest]

\* (*URL).IsAbs
IsAbs(u) == u.Scheme # ""

\* (*URL).String
String(u) ==
    LET scheme == IF u.Scheme # "" THEN u.Scheme \o ":" ELSE ""
        auth   == IF (u.Scheme # "" \/ u.Host # "") /\ (u.Host # "" \/ u.Path # "")
                  THEN "//" \o u.Host ELSE ""
        slash  == IF u.Path # "" /\ ~HasPrefix(u.Path, "/") /\ u.Host # "" THEN "/" ELSE ""
        dot    == IF scheme = "" /\ auth = "" /\ Contains(Cut(u.Path, "/")[1], ":")
                  THEN "./" ELSE ""
        body   == IF u.Opaque # "" THEN u.Opaque ELSE auth \o slash \o dot \o u.Path
        query  == IF u.ForceQuery \/ u.RawQuery # "" THEN "?" \o u.RawQuery ELSE ""
        frag   == IF u.Fragment # "" THEN "#" \o u.Fragment ELSE ""
    IN  scheme \o body \o query \o frag

\* the segment loop of url.resolvePath: dst starts as "/", "." is dropped, ".." pops
RECURSIVE RemoveDots(_, _, _)
RemoveDots(remaining, dst, first) ==
    LET c     == Cut(remaining, "/")
        elem  == c[1]
        str   == From(dst, 2)
        index == LastIndex(str, "/")
        dst2  == IF elem = "." THEN dst
                 ELSE IF elem = ".."
                      THEN IF index = 0 THEN "/" ELSE "/" \o SubSeq(str, 1, index - 1)
                 ELSE IF first THEN dst \o elem ELSE dst \o "/" \o elem
        fst2  == IF elem = "." THEN FALSE
                 ELSE IF elem = ".." THEN (IF index = 0 THEN TRUE ELSE first)
                 ELSE FALSE
        r     == IF elem = "." \/ elem = ".." THEN dst2 \o "/" ELSE dst2
    IN  IF c[3] THEN RemoveDots(c[2], dst2, fst2)
        ELSE IF Len(r) > 1 /\ SubSeq(r, 2, 2) = "/" THEN From(r, 2) ELSE r

\* url.resolvePath
resolvePath(base, ref) ==
    LET full == IF ref = "" THEN base
                ELSE IF ~HasPrefix(ref, "/")
                     THEN SubSeq(base, 1, LastIndex(base, "/")) \o ref
                ELSE ref
    IN  IF full = "" THEN "" ELSE RemoveDots(full, "/", TRUE)

\* (*URL).ResolveReference, for a base that is absolute and has no opaque part
ResolveReference(u, ref) ==
    LET url == [ref EXCEPT !.Scheme = IF ref.Scheme = "" THEN u.Scheme ELSE ref.Scheme]
    IN  IF ref.Scheme # "" \/ ref.Host # ""
        THEN [url EXCEPT !.Path = resolvePath(ref.Path, "")]
        ELSE IF ref.Opaque # ""
             THEN [url EXCEPT !.Host = "", !.Path = ""]
        ELSE LET inherit == ref.Path = "" /\ ~ref.ForceQuery /\ ref.RawQuery = ""
             IN  [url EXCEPT !.RawQuery = IF inherit THEN u.RawQuery ELSE ref.RawQuery,
                             !.Fragment = IF inherit /\ ref.Fragment = ""
                                          THEN u.Fragment ELSE ref.Fragment,
                             !.Host = u.Host,
                             !.Path = resolvePath(u.Path, ref.Path)]

\* url.PathEscape, character by character: the unreserved characters and the
\* sub-delimiters a path segment may hold are kept, the rest become %XX
EscapeChar(c) ==
    IF c = "/" THEN "%2F"
    ELSE IF c = " " THEN "%20"
    ELSE IF c = "?" THEN "%3F"
    ELSE IF c = "#" THEN "%23"
    ELSE c

RECURSIVE EscapeFrom(_, _)
EscapeFrom(s, i) ==
    IF i > Len(s) THEN "" ELSE EscapeChar(SubSeq(s, i, i)) \o EscapeFrom(s, i + 1)

PathEscape(s) == EscapeFrom(s, 1)

\* const debianTestingBaseURL
debianTestingBaseURL == "https://packages.debian.org/buster/"

-----------------------------------------------------------------------------
(* package path/filepath and the filesystem under the working directory.   *)
(* fs.dirs: the directories; fs.files: path -> [src, state], the URL the   *)
(* content came from and how much of it arrived.                           *)

NoFiles == [p \in {} |-> [src |-> "", state |-> "empty"]]

EmptyFS == [dirs |-> {}, files |-> NoFiles]

\* filepath.Join(dir, elem) for one element, with filepath.Clean's treatment
\* of an empty, "." or ".." element
Join(dir, elem) ==
    IF elem = "" \/ elem = "." THEN dir
    ELSE IF dir = "" THEN elem
    ELSE IF elem = ".."
         THEN (IF LastIndex(dir, "/") = 0 THEN "."
               ELSE SubSeq(dir, 1, LastIndex(dir, "/") - 1))
    ELSE dir \o "/" \o elem

\* filepath.Split: <<dir, file>>
Split(path) ==
    LET i == LastIndex(path, "/") IN <<SubSeq(path, 1, i), From(path, i + 1)>>

\* os.Stat(p) returns no error
Exists(f, p) == p = "." \/ p \in f.dirs \/ p \in DOMAIN f.files

\* fileExists
fileExists(f, file) == Exists(f, file)

\* the files directly inside directory dir
FilesIn(f, dir) == {p \in DOMAIN f.files : Split(p)[1] = dir \o "/"}

\* a plausible slip: the file is named from u.String() instead of u.Path, so
\* that a query or fragment ends up in the file name
buildPathFromString(u, pkg) ==
    [parentDir |-> pkg, path |-> Join(pkg, From(String(u), LastIndex(String(u), "/") + 1))]

\* buildPath: the package directory and, inside it, the final segment of u.Path
buildPath(u, pkg) ==
    [parentDir |-> pkg, path |-> Join(pkg, From(u.Path, LastIndex(u.Path, "/") + 1))]

\* ensureDirExists: os.Mkdir when os.Stat reports the directory missing
ensureDirExists(f, dir) ==
    IF Exists(f, dir) THEN f ELSE [f EXCEPT !.dirs = @ \cup {dir}]

-----------------------------------------------------------------------------
(* download.  net is what the network does with the GET: "ok", "getErr"    *)
(* (http.Get returns an error) or "copyErr" (io.Copy returns an error).    *)
(* The result: the filesystem afterwards, the GET requests issued, the     *)
(* path returned, whether log.Fatalf ended the process, and the events.    *)

Outcomes == {"ok", "getErr", "copyErr"}

Ev(op, arg) == [op |-> op, arg |-> arg]

\* a plausible slip: the existing-file check is missing, the file is always re-fetched
downloadNoSkip(f, u, pkgName, net) ==
    LET bp  == buildPath(u, pkgName)
        f1  == ensureDirExists(f, bp.parentDir)
        mk  == IF f1 = f THEN <<>> ELSE <<Ev("mkdir", bp.parentDir)>>
        put(st) == [f1 EXCEPT !.files =
                       [q \in DOMAIN f1.files \cup {bp.path} |->
                           IF q = bp.path THEN [src |-> String(u), state |-> st]
                                          ELSE f1.files[q]]]
        pre == <<Ev("call", String(u))>> \o mk
               \o <<Ev("create", bp.path), Ev("GET", String(u))>>
    IN  IF net = "getErr"
        THEN [fs |-> put("empty"), gets |-> <<String(u)>>, path |-> bp.path,
              fatal |-> TRUE, skipped |-> FALSE, events |-> pre]
        ELSE IF net = "copyErr"
        THEN [fs |-> put("truncated"), gets |-> <<String(u)>>, path |-> bp.path,
              fatal |-> TRUE, skipped |-> FALSE, events |-> pre]
        ELSE [fs |-> put("complete"), gets |-> <<String(u)>>, path |-> bp.path,
              fatal |-> FALSE, skipped |-> FALSE,
              events |-> pre \o <<Ev("ret", String(u))>>]

\* a plausible slip: a failed download removes the file it created
downloadCleanup(f, u, pkgName, net) ==
    LET r  == downloadNoSkip(f, u, pkgName, net)
        bp == buildPath(u, pkgName)
        f1 == ensureDirExists(f, bp.parentDir)
    IN  IF fileExists(f1, bp.path)
        THEN [fs |-> f1, gets |-> <<>>, path |-> bp.path, fatal |-> FALSE,
              skipped |-> TRUE,
              events |-> <<Ev("call", String(u))>>
                         \o (IF f1 = f THEN <<>> ELSE <<Ev("mkdir", bp.parentDir)>>)
                         \o <<Ev("ret", String(u))>>]
        ELSE IF r.fatal THEN [r EXCEPT !.fs = f1] ELSE r

\* download
download(f, u, pkgName, net) ==
    LET bp  == buildPath(u, pkgName)
        f1  == ensureDirExists(f, bp.parentDir)
        mk  == IF f1 = f THEN <<>> ELSE <<Ev("mkdir", bp.parentDir)>>
        put(st) == [f1 EXCEPT !.files =
                       [q \in DOMAIN f1.files \cup {bp.path} |->
                           IF q = bp.path THEN [src |-> String(u), state |-> st]
                                          ELSE f1.files[q]]]
        pre == <<Ev("call", String(u))>> \o mk
               \o <<Ev("create", bp.path), Ev("GET", String(u))>>
    IN  IF fileExists(f1, bp.path)
        THEN [fs |-> f1, gets |-> <<>>, path |-> bp.path, fatal |-> FALSE,
              skipped |-> TRUE,
              events |-> <<Ev("call", String(u))>> \o mk \o <<Ev("ret", String(u))>>]
        ELSE IF net = "getErr"
        THEN [fs |-> put("empty"), gets |-> <<String(u)>>, path |-> bp.path,
              fatal |-> TRUE, skipped |-> FALSE, events |-> pre]
        ELSE IF net = "copyErr"
        THEN [fs |-> put("truncated"), gets |-> <<String(u)>>, path |-> bp.path,
              fatal |-> TRUE, skipped |-> FALSE, events |-> pre]
        ELSE [fs |-> put("complete"), gets |-> <<String(u)>>, path |-> bp.path,
              fatal |-> FALSE, skipped |-> FALSE,
              events |-> pre \o <<Ev("ret", String(u))>>]

-----------------------------------------------------------------------------
(* The index page as the tokens html.Tokenizer yields, and getLinks.       *)

Attr(k, v) == [Key |-> k, Val |-> v]

Tag(type, data, attr) == [Type |-> type, Data |-> data, Attr |-> attr]

A(href) == Tag("StartTag", "a", <<Attr("class", "dl"), Attr("href", href)>>)

\* getHref: the value of the first href attribute, if any: <<href, ok>>
getHref(t) ==
    LET hits == {i \in 1..Len(t.Attr) : t.Attr[i].Key = "href"}
    IN  IF hits = {} THEN <<"", FALSE>>
        ELSE <<t.Attr[CHOOSE i \in hits : \A j \in hits : i <= j].Val, TRUE>>

\* getLinks: the hrefs of the start tags named "a", in document order
RECURSIVE LinksFrom(_, _)
LinksFrom(tokens, k) ==
    IF k > Len(tokens) THEN <<>>
    ELSE LET t == tokens[k]
         IN  IF t.Type = "StartTag" /\ t.Data = "a" /\ getHref(t)[2]
             THEN <<getHref(t)[1]>> \o LinksFrom(tokens, k + 1)
             ELSE LinksFrom(tokens, k + 1)

getLinks(body) == LinksFrom(body, 1)

Noise == << Tag("StartTag", "a", <<Attr("name", "top")>>),
            Tag("StartTag", "link", <<Attr("href", "style.dsc")>>),
            Tag("SelfClosingTag", "a", <<Attr("href", "self.dsc")>>),
            Tag("EndTag", "a", <<>>),
            A("changelog") >>

\* the end-to-end scenario: one anchor per role and unrelated ones
PageFull == <<A("foo_1.0.dsc"), A("foo_1.0.orig.tar.gz")>> \o Noise
            \o <<A("foo_1.0.debian.tar.xz")>>

\* a Debian-native package: no original-source and no Debian-diff archive
PageNative == Noise \o <<A("/pool/main/f/foo/foo_1.0.dsc"), A("foo_1.0.tar.xz")>>

\* no description file
PageNoDsc == <<A("foo_1.0.orig.tar.xz"), A("foo_1.0.debian.tar.xz"), A("changelog")>>

\* absolute, root-relative and dotted hrefs, and an older .dsc earlier on the page
PageMixed == <<A("old_0.9.dsc"), A("../pool/./foo_1.0.debian.tar.xz"),
               A("http://deb.debian.org/pool/foo_1.0.orig.tar.xz"),
               A("/pool/foo_1.0.dsc")>>

\* download links that carry the file name in the query
PageQuery == <<A("get?f=foo_1.0.dsc"), A("about"), A("get?f=foo_1.0.orig.tar.gz"),
               A("get?f=foo_1.0.debian.tar.xz")>>

\* file names in the path, a version in the query
PageVersioned == <<A("foo.dsc?v=1.dsc"), A("foo.orig.tar.gz?v=1.orig.tar.gz"),
                   A("about"), A("foo.debian.tar.xz#.debian.tar.xz")>>

\* an href url.Parse rejects
PageBad == <<A("foo_1.0.dsc"), A(":80/foo_1.0.debian.tar.xz")>>

Pages == {PageFull, PageNative, PageNoDsc, PageMixed, PageQuery, PageVersioned,
          PageBad, <<>>}

\* the package names given on the command line
PkgNames == {"foo"}

-----------------------------------------------------------------------------
(* The state before any process has run: an empty working directory.       *)

NoResult == [kind |-> "none", msg |-> ""]

Init ==
    /\ pc = "shell"
    /\ cmdName = ""
    /\ fresh = FALSE
    /\ dp = NewDpkgSrc
    /\ links = <<>>
    /\ pos = 0
    /\ fs = EmptyFS
    /\ calls = <<>>
    /\ trace = <<>>
    /\ result = NoResult
    /\ runs = 0
    /\ procState = "none"
    /\ procOut = <<>>
    /\ toWrite = <<>>
    /\ exitOK = TRUE
    /\ pipe = <<>>
    /\ pipeClosed = FALSE
    /\ reader = "none"
    /\ scanBuf = 0
    /\ logged = <<>>

\* a new process: nothing of the previous one survives but the filesystem
NewProcess ==
    /\ pc \in {"shell", "exited"}
    /\ runs < MaxRuns
    /\ runs' = runs + 1
    /\ calls' = <<>>
    /\ procState' = "none"
    /\ procOut' = <<>>
    /\ toWrite' = <<>>
    /\ exitOK' = TRUE
    /\ pipe' = <<>>
    /\ pipeClosed' = FALSE
    /\ reader' = "none"
    /\ scanBuf' = 0
    /\ logged' = <<>>

\* log.Fatalf: the message is logged and os.Exit(1) ends the process at once
Fatal(msg) ==
    /\ pc' = "exited"
    /\ result' = [kind |-> "fatal", msg |-> msg]

\* the argument lists the command line can carry
ArgLists == {<<>>} \cup {<<n>> : n \in PkgNames}

\* validateArgs: <<name, ok>>
validateArgs(args) == IF Len(args) > 0 THEN <<args[1], TRUE>> ELSE <<"", FALSE>>

\* the error commandBuild returns on a missing package name
buildUsageError == "fetch: no package name provided"

\* the error commandFetch returns on a missing package name
fetchUsageError == "fetch: no package name provided"

\* commandBuild
CommandBuild(args) ==
    /\ NewProcess
    /\ cmdName' = "build"
    /\ result' = IF validateArgs(args)[2] THEN [kind |-> "ok", msg |-> ""]
                 ELSE [kind |-> "usage", msg |-> buildUsageError]
    /\ pc' = "exited"
    /\ trace' = <<>>
    /\ fresh' = FALSE
    /\ dp' = NewDpkgSrc
    /\ links' = <<>>
    /\ pos' = 0
    /\ UNCHANGED fs

\* url.Parse(debianTestingBaseURL)
BaseURL == Parse(debianTestingBaseURL)

\* commandFetch up to the call of dp.fetch: the arguments, the GET of the index
\* page, getLinks, fillFromLinks
CommandFetch(args, page, net) ==
    LET v        == validateArgs(args)
        pkgName  == v[1]
        fetchURL == String(BaseURL) \o PathEscape(pkgName)
        ls       == getLinks(page)
    IN  /\ NewProcess
        /\ cmdName' = "fetch"
        /\ UNCHANGED fs
        /\ pos' = 0
        /\ IF ~v[2]
           THEN /\ result' = [kind |-> "usage", msg |-> fetchUsageError]
                /\ pc' = "exited"
                /\ trace' = <<>>
                /\ fresh' = FALSE
                /\ dp' = NewDpkgSrc
                /\ links' = <<>>
           ELSE IF net = "getErr"
           THEN /\ Fatal("Error getting")
                /\ trace' = <<Ev("GET", fetchURL)>>
                /\ fresh' = ~Exists(fs, pkgName)
                /\ dp' = NewDpkgSrc
                /\ links' = <<>>
           ELSE /\ pc' = "fetch"
                /\ result' = NoResult
                /\ trace' = <<Ev("GET", fetchURL), Ev("classified", "")>>
                /\ fresh' = ~Exists(fs, pkgName)
                /\ links' = ls
                /\ dp' = [fillFromLinks(NewDpkgSrc, ls) EXCEPT !.Name = pkgName]

\* a plausible slip: the original-source archive is fetched before the Debian diff
fetchLinksOrigFirst(d) == <<d.DSC, d.Orig, d.Debian>>

\* links := []string{d.DSC, d.Debian, d.Orig}
fetchLinks(d) == <<d.DSC, d.Debian, d.Orig>>

\* the absolute URL dpkgSrc.fetch hands to download for the link l
linkURL(l) ==
    LET p == Parse(l) IN IF IsAbs(p) THEN p ELSE ResolveReference(BaseURL, p)

\* what is recorded of one call of download
CallRecord(f, l, u, pkgName, r) ==
    [href |-> l, url |-> String(u), pkg |-> pkgName, gets |-> r.gets, path |-> r.path,
     fatal |-> r.fatal,
     existed |-> fileExists(f, r.path),
     before |-> IF r.path \in DOMAIN f.files THEN f.files[r.path].state ELSE "none",
     after |-> IF r.path \in DOMAIN r.fs.files THEN r.fs.files[r.path].state ELSE "none"]

\* one iteration of the loop of dpkgSrc.fetch
FetchStep(net) ==
    LET l == fetchLinks(dp)[pos + 1]
        u == linkURL(l)
        r == download(fs, u, dp.Name, net)
    IN  /\ pc = "fetch"
        /\ pos' = pos + 1
        /\ UNCHANGED <<cmdName, fresh, links, runs, procVars>>
        /\ IF ~Parse(l).ok
           THEN /\ Fatal("Error parsing URL")
                /\ UNCHANGED <<dp, fs, calls, trace>>
           ELSE /\ fs' = r.fs
                /\ calls' = Append(calls, CallRecord(fs, l, u, dp.Name, r))
                /\ trace' = trace \o r.events
                /\ IF r.fatal
                   THEN /\ Fatal("Error downloading file")
                        /\ UNCHANGED dp
                   ELSE /\ dp' = IF l = dp.DSC THEN [dp EXCEPT !.DscPath = r.path] ELSE dp
                        /\ pc' = IF pos + 1 = Len(fetchLinks(dp)) THEN "extract" ELSE "fetch"
                        /\ UNCHANGED result

-----------------------------------------------------------------------------
(* dpkgSrc.extract.  The subprocess's output is counted in blocks: a line  *)
(* of n blocks is n-1 blocks "c" without a newline and one block "n" that  *)
(* ends with it.  The pipe holds PipeCapacity blocks; the Scanner gives up *)
(* (bufio.ErrTooLong) once MaxScanTokenSize blocks hold no newline.        *)

RECURSIVE SeqsUpTo(_, _)
SeqsUpTo(S, n) ==
    IF n = 0 THEN {<<>>}
    ELSE LET shorter == SeqsUpTo(S, n - 1)
         IN  shorter \cup {Append(q, x) : q \in {t \in shorter : Len(t) = n - 1}, x \in S}

\* what dpkg-source may print: up to MaxLines lines of up to MaxLineLen blocks
Outputs == SeqsUpTo(1..MaxLineLen, MaxLines)

\* the few outputs the whole pipeline is run with
ShortOutputs == {<<>>, <<1>>, <<2, 1>>}

RECURSIVE Blocks(_)
Blocks(out) ==
    IF out = <<>> THEN <<>>
    ELSE [i \in 1..Head(out) |-> IF i = Head(out) THEN "n" ELSE "c"] \o Blocks(Tail(out))

\* the file name and directory exec.Command is given
dscFile(d) == Split(d.DscPath)[2]

\* extract up to cmd.Start: exec.Command, cmd.StdoutPipe, bufio.NewScanner and the
\* go statement that starts the reader
ExtractBegin ==
    /\ pc = "extract"
    /\ pc' = "start"
    /\ reader' = "running"
    /\ trace' = Append(trace, Ev("pipe", dscFile(dp)))
    /\ UNCHANGED <<cmdName, fresh, dp, links, pos, fs, calls, result, runs,
                   procState, procOut, toWrite, exitOK, pipe, pipeClosed, scanBuf, logged>>

\* cmd.Start: the subprocess runs "dpkg-source -x --no-check dscFile" in the package
\* directory; it can exit with status 0 only if dscFile is a file there
CmdStart(outs) ==
    /\ pc = "start"
    /\ UNCHANGED <<cmdName, fresh, dp, links, pos, fs, calls, runs,
                   pipe, pipeClosed, reader, scanBuf, logged>>
    /\ \/ /\ Fatal("Error starting Cmd")
          /\ UNCHANGED <<trace, procState, procOut, toWrite, exitOK>>
       \/ \E out \in outs, ok \in BOOLEAN :
             /\ ok => Join(dp.Name, dscFile(dp)) \in DOMAIN fs.files
             /\ pc' = "wait"
             /\ procState' = "running"
             /\ procOut' = out
             /\ toWrite' = Blocks(out)
             /\ exitOK' = ok
             /\ trace' = Append(trace, Ev("exec", dscFile(dp)))
             /\ UNCHANGED result

\* the subprocess writes one block; the write blocks while the pipe is full
ProcWrite ==
    /\ pc \in {"wait", "returned"}
    /\ procState = "running"
    /\ toWrite # <<>>
    /\ Len(pipe) < PipeCapacity
    /\ pipe' = Append(pipe, Head(toWrite))
    /\ toWrite' = Tail(toWrite)
    /\ UNCHANGED <<pc, cmdName, fresh, dp, links, pos, fs, calls, trace, result, runs,
                   procState, procOut, exitOK, pipeClosed, reader, scanBuf, logged>>

\* the subprocess exits once all its writes were accepted
ProcExit ==
    /\ pc \in {"wait", "returned"}
    /\ procState = "running"
    /\ toWrite = <<>>
    /\ procState' = "exited"
    /\ UNCHANGED <<pc, cmdName, fresh, dp, links, pos, fs, calls, trace, result, runs,
                   procOut, toWrite, exitOK, pipe, pipeClosed, reader, scanBuf, logged>>

\* the reader goroutine: one round of scanner.Scan's loop, and log.Println for a line
ReaderStep ==
    /\ pc \in {"start", "wait", "returned"}
    /\ reader = "running"
    /\ UNCHANGED <<pc, cmdName, fresh, dp, links, pos, fs, calls, trace, result, runs,
                   procState, procOut, toWrite, exitOK, pipeClosed>>
    /\ IF scanBuf >= MaxScanTokenSize
       THEN \* the buffer is full and holds no newline: ErrTooLong, Scan returns false
            /\ reader' = "stopped"
            /\ UNCHANGED <<pipe, scanBuf, logged>>
       ELSE IF pipeClosed \/ (pipe = <<>> /\ procState = "exited")
       THEN \* a read error or EOF: what is buffered is the last token
            /\ reader' = "stopped"
            /\ logged' = IF scanBuf > 0 THEN Append(logged, scanBuf) ELSE logged
            /\ scanBuf' = 0
            /\ UNCHANGED pipe
       ELSE /\ pipe # <<>>
            /\ pipe' = Tail(pipe)
            /\ UNCHANGED reader
            /\ IF Head(pipe) = "n"
               THEN logged' = Append(logged, scanBuf + 1) /\ scanBuf' = 0
               ELSE scanBuf' = scanBuf + 1 /\ UNCHANGED logged

\* cmd.Wait: returns once the subprocess has exited, closes the read end of the
\* pipe, and reports a non-zero exit status as an error
CmdWait ==
    /\ pc = "wait"
    /\ procState = "exited"
    /\ pipeClosed' = TRUE
    /\ IF exitOK THEN pc' = "returned" /\ UNCHANGED result
                 ELSE Fatal("Error waiting for Cmd")
    /\ UNCHANGED <<cmdName, fresh, dp, links, pos, fs, calls, trace, runs,
                   procState, procOut, toWrite, exitOK, pipe, reader, scanBuf, logged>>

\* extract has returned: commandFetch returns nil, main returns, the process ends
CommandReturn ==
    /\ pc = "returned"
    /\ pc' = "exited"
    /\ result' = [kind |-> "ok", msg |-> ""]
    /\ UNCHANGED <<cmdName, fresh, dp, links, pos, fs, calls, trace, runs, procVars>>

-----------------------------------------------------------------------------
(* The program: processes of dpkg-builder run one after another.            *)

Next ==
    \/ \E args \in ArgLists : CommandBuild(args)
    \/ \E args \in ArgLists, page \in Pages, net \in {"ok", "getErr"} :
          CommandFetch(args, page, net)
    \/ \E net \in Outcomes : FetchStep(net)
    \/ ExtractBegin
    \/ CmdStart(ShortOutputs)
    \/ ProcWrite
    \/ ProcExit
    \/ ReaderStep
    \/ CmdWait
    \/ CommandReturn

Spec == Init /\ [][Next]_vars

-----------------------------------------------------------------------------
(* fillFromLinks on its own: a fresh dpkgSrc and any list of up to MaxLinks *)
(* hrefs, consumed one link per step or all at once.                        *)

Hrefs == {"foo_1.0.dsc", "/pool/bar_2.dsc", ".dsc", "foo_1.0.orig.tar.xz",
          "foo_1.0.orig.tar.gz", "foo_1.0.debian.tar.xz", "get?f=x.debian.tar.xz",
          "foo_1.0.debian.tar.gz", "foo_1.0.dsc.asc", "foo_1.0.tar.xz", "changelog", ""}

InitClassify ==
    /\ pc = "classify"
    /\ cmdName = "fetch"
    /\ fresh = FALSE
    /\ dp = NewDpkgSrc
    /\ links \in SeqsUpTo(Hrefs, MaxLinks)
    /\ pos = 0
    /\ fs = EmptyFS
    /\ calls = <<>>
    /\ trace = <<>>
    /\ result = NoResult
    /\ runs = 1
    /\ procState = "none"
    /\ procOut = <<>>
    /\ toWrite = <<>>
    /\ exitOK = TRUE
    /\ pipe = <<>>
    /\ pipeClosed = FALSE
    /\ reader = "none"
    /\ scanBuf = 0
    /\ logged = <<>>

\* one iteration of fillFromLinks' loop
ClassifyStep ==
    /\ pc = "classify"
    /\ pos < Len(links)
    /\ dp' = FillOne(dp, links[pos + 1])
    /\ pos' = pos + 1
    /\ UNCHANGED <<pc, cmdName, fresh, links, fs, calls, trace, result, runs, procVars>>

\* the whole call dp.fillFromLinks(links)
ClassifyAll ==
    /\ pc = "classify"
    /\ pos = 0
    /\ dp' = fillFromLinks(dp, links)
    /\ pos' = Len(links)
    /\ pc' = "classified"
    /\ UNCHANGED <<cmdName, fresh, links, fs, calls, trace, result, runs, procVars>>

NextClassify == ClassifyStep \/ ClassifyAll

SpecClassify == InitClassify /\ [][NextClassify]_vars

-----------------------------------------------------------------------------
(* download on its own: up to MaxCalls calls, one after another, each in a  *)
(* process of its own if the one before ended in log.Fatalf.                *)

HarnessURLs == {linkURL(h) : h \in {"foo_1.0.dsc", "get?f=foo_1.0.dsc", ""}}

HarnessPkgs == {"foo", "bar"}

DownloadCall(u, pkgName, net) ==
    LET r == download(fs, u, pkgName, net)
    IN  /\ pc = "shell"
        /\ Len(calls) < MaxCalls
        /\ fs' = r.fs
        /\ calls' = Append(calls, CallRecord(fs, "", u, pkgName, r))
        /\ UNCHANGED <<pc, cmdName, fresh, dp, links, pos, trace, result, runs, procVars>>

NextDownload ==
    \E u \in HarnessURLs, pkgName \in HarnessPkgs, net \in Outcomes :
        DownloadCall(u, pkgName, net)

SpecDownload == Init /\ [][NextDownload]_vars

-----------------------------------------------------------------------------
(* extract on its own, from the state in which commandFetch calls it after  *)
(* a complete fetch, with every output of Outputs and the scheduling of the *)
(* two goroutines and the subprocess left open but fair.                    *)

InitExtract ==
    /\ pc = "extract"
    /\ cmdName = "fetch"
    /\ fresh = TRUE
    /\ dp = [Name |-> "foo", DSC |-> "foo_1.0.dsc", Orig |-> "", Debian |-> "",
             DscPath |-> "foo/foo_1.0.dsc"]
    /\ links = <<"foo_1.0.dsc">>
    /\ pos = 3
    /\ fs = [dirs |-> {"foo"},
             files |-> [q \in {"foo/foo_1.0.dsc"} |->
                           [src |-> String(linkURL("foo_1.0.dsc")), state |-> "complete"]]]
    /\ calls = <<>>
    /\ trace = <<>>
    /\ result = NoResult
    /\ runs = 1
    /\ procState = "none"
    /\ procOut = <<>>
    /\ toWrite = <<>>
    /\ exitOK = TRUE
    /\ pipe = <<>>
    /\ pipeClosed = FALSE
    /\ reader = "none"
    /\ scanBuf = 0
    /\ logged = <<>>

NextExtract ==
    \/ ExtractBegin
    \/ CmdStart(Outputs)
    \/ ProcWrite
    \/ ProcExit
    \/ ReaderStep
    \/ CmdWait
    \/ CommandReturn

\* the Go scheduler runs every runnable goroutine and the kernel every runnable
\* process; a goroutine blocked on the pipe or in Wait is not runnable
SpecExtract ==
    /\ InitExtract
    /\ [][NextExtract]_vars
    /\ WF_vars(ExtractBegin)
    /\ WF_vars(CmdStart(Outputs))
    /\ WF_vars(ProcWrite)
    /\ WF_vars(ProcExit)
    /\ WF_vars(ReaderStep)
    /\ WF_vars(CmdWait)
    /\ WF_vars(CommandReturn)

-----------------------------------------------------------------------------
(* Properties *)

RoleSuffixes ==
    [DSC |-> {".dsc"}, Orig |-> {".orig.tar.xz", ".orig.tar.gz"}, Debian |-> {".debian.tar.xz"}]

Roles == {"DSC", "Orig", "Debian"}

EndsWithOneOf(h, sufs) == \E x \in sufs : HasSuffix(h, x)

\* the last of the first k hrefs of ls that ends with one of sufs; "" if there is none
LastMatch(ls, k, sufs) ==
    LET hits == {i \in 1..k : EndsWithOneOf(ls[i], sufs)}
    IN  IF hits = {} THEN "" ELSE ls[CHOOSE i \in hits : \A j \in hits : i >= j]

RoleValue(d, r) == IF r = "DSC" THEN d.DSC ELSE IF r = "Orig" THEN d.Orig ELSE d.Debian

\* C1: after fillFromLinks has consumed any number of links of the list, every role
\* holds the last consumed href that ends with the role's suffix and is unset if
\* there is none; consequently a set role holds an href with its own suffix only
\* (an href matching no suffix is stored nowhere), and no href is held by two roles.
C1_LastMatchPerRole ==
    pc \in {"classify", "classified"} =>
        /\ \A r \in Roles : RoleValue(dp, r) = LastMatch(links, pos, RoleSuffixes[r])
        /\ \A r1, r2 \in Roles :
              r1 # r2 /\ RoleValue(dp, r1) # "" => RoleValue(dp, r1) # RoleValue(dp, r2)
        /\ \A r \in Roles :
              RoleValue(dp, r) # "" =>
                 \A r2 \in Roles \ {r} : ~EndsWithOneOf(RoleValue(dp, r), RoleSuffixes[r2])

\* witness of C1: the whole list was classified; it held two different .orig.tar.* hrefs, the later
\* one ending in .gz and retained, and an href that matches no suffix
C1_Witness ==
    /\ pc = "classified"
    /\ Len(links) = MaxLinks
    /\ \E i, j, k \in 1..Len(links) :
          /\ i < j
          /\ HasSuffix(links[i], ".orig.tar.xz")
          /\ HasSuffix(links[j], ".orig.tar.gz")
          /\ dp.Orig = links[j]
          /\ \A r \in Roles : ~EndsWithOneOf(links[k], RoleSuffixes[r])
    /\ dp.DSC = ""

\* a role has no href on the index page
Absent(r) == RoleValue(dp, r) = ""

\* fillFromLinks has run in the current process
Classified == cmdName = "fetch" /\ Len(trace) >= 2 /\ trace[2].op = "classified"

\* C2: a role without href is skipped silently: its download step issues no GET and
\* creates no file, dpkg-source is not started when the description role is absent,
\* and the process does not end in the error of a failed extraction.
C2_AbsentRoleSkipped ==
    Classified =>
        /\ \A k \in 1..Len(calls) :
              calls[k].href = "" =>
                 /\ calls[k].gets = <<>>
                 /\ calls[k].before = calls[k].after
                 /\ ~calls[k].fatal
        /\ Absent("DSC") =>
              /\ procState = "none"
              /\ \A k \in 1..Len(trace) : trace[k].op # "exec"
              /\ result.kind = "fatal" =>
                    result.msg # "Error waiting for Cmd"

\* the calls k and k+1 of download have the same URL and package name
SameTwice(k) ==
    /\ k + 1 <= Len(calls)
    /\ calls[k].url = calls[k + 1].url
    /\ calls[k].pkg = calls[k + 1].pkg

\* C3 as stated: two calls of download in a row for the same URL and package name
\* perform exactly one GET together, none of it in the second call, which leaves the
\* file as it is and returns the same path.
C3_ExactlyOneGet ==
    \A k \in 1..Len(calls) :
        SameTwice(k) =>
            /\ Len(calls[k].gets) + Len(calls[k + 1].gets) = 1
            /\ calls[k + 1].gets = <<>>
            /\ calls[k + 1].before = calls[k + 1].after
            /\ calls[k + 1].path = calls[k].path

\* C3 amended: the second of two calls in a row for the same URL and package name
\* performs no GET, does not end the process, leaves the file as it is and returns
\* the path of the first; together they perform one GET if the destination did not
\* exist before the first call and is not the package directory itself, else none.
C3_SecondCallSkips ==
    \A k \in 1..Len(calls) :
        SameTwice(k) =>
            /\ calls[k + 1].gets = <<>>
            /\ ~calls[k + 1].fatal
            /\ calls[k + 1].before = calls[k + 1].after
            /\ calls[k + 1].path = calls[k].path
            /\ Len(calls[k].gets) + Len(calls[k + 1].gets) =
                  IF calls[k].existed \/ calls[k].path = calls[k].pkg THEN 0 ELSE 1

\* witness of C3: a first call fetched the file completely and the next call, for the same URL and
\* package name, fetched nothing
C3_Witness ==
    \E k \in 1..Len(calls) :
        /\ SameTwice(k)
        /\ Len(calls[k].gets) = 1
        /\ calls[k].after = "complete"
        /\ calls[k + 1].gets = <<>>
        /\ calls[k + 1].after = "complete"

\* C4: a subcommand invoked without package name returns an error that contains the
\* subcommand's name, before any GET, file creation or subprocess start.
C4_UsageErrorNamesCommand ==
    result.kind = "usage" =>
        /\ Contains(result.msg, cmdName)
        /\ trace = <<>>
        /\ procState = "none"

\* the role of an href by its suffix, "none" if it has none of the suffixes
RoleOf(h) ==
    IF \E r \in Roles : EndsWithOneOf(h, RoleSuffixes[r])
    THEN CHOOSE r \in Roles : EndsWithOneOf(h, RoleSuffixes[r])
    ELSE "none"

\* the index page has exactly one anchor per role
OnePerRole ==
    \A r \in Roles : Cardinality({k \in 1..Len(links) : RoleOf(links[k]) = r}) = 1

\* the text after the last '/' of the path of the URL the href resolves to
FinalSegment(h) ==
    LET path == linkURL(h).Path IN From(path, LastIndex(path, "/") + 1)

ArtifactHrefs == {dp.DSC, dp.Orig, dp.Debian}

\* the three final path segments are three different names a file can have
DistinctFileNames ==
    /\ \A h \in ArtifactHrefs : FinalSegment(h) \notin {"", ".", ".."}
    /\ Cardinality({FinalSegment(h) : h \in ArtifactHrefs}) = 3

ThreeFilesNamedBySegment ==
    /\ dp.Name \in fs.dirs
    /\ Cardinality(FilesIn(fs, dp.Name)) = 3
    /\ FilesIn(fs, dp.Name) = {dp.Name \o "/" \o FinalSegment(h) : h \in ArtifactHrefs}

\* C5 as stated: no package directory at the start, one anchor per role, every GET
\* succeeds: when dpkgSrc.fetch has returned the package directory exists and holds
\* exactly three files, named by the final path segments of the artifact URLs.
C5_ThreeFiles ==
    (pc = "extract" /\ fresh /\ OnePerRole) => ThreeFilesNamedBySegment

\* C5 amended: the same, provided the three final path segments are pairwise
\* different file names (not empty, not "." or "..").
C5_ThreeFilesDistinctNames ==
    (pc = "extract" /\ fresh /\ OnePerRole /\ DistinctFileNames) => ThreeFilesNamedBySegment

\* witness of C5: dpkgSrc.fetch has returned in a fresh directory for a page with one anchor per
\* role, unrelated anchors and an href whose query is not part of the file name
C5_Witness ==
    /\ pc = "extract"
    /\ fresh
    /\ OnePerRole
    /\ DistinctFileNames
    /\ Len(links) > 3
    /\ \E h \in ArtifactHrefs : Parse(h).RawQuery # ""
    /\ \A k \in 1..Len(calls) : Len(calls[k].gets) = 1

\* the steps of the process that C6 orders
Ordered == SelectSeq(trace, LAMBDA e : e.op \in {"classified", "call", "ret", "exec"})

ExpectedOps == <<"classified", "call", "ret", "call", "ret", "call", "ret", "exec">>

\* C6: in a run of fetch the first step is the GET of the index page; then, after
\* classification, download is called and has returned for the description file,
\* then for the Debian diff, then for the original source, one call after the other,
\* every artifact GET and file creation lying between a call and its return;
\* dpkg-source is started only after the third return.
C6_DownloadOrder ==
    (cmdName = "fetch" /\ trace # <<>>) =>
        /\ trace[1].op = "GET"
        /\ \A k \in 2..Len(trace) :
              trace[k].op \in {"GET", "create", "mkdir"} =>
                 \E c \in 1..(k - 1) :
                    /\ trace[c].op = "call"
                    /\ \A m \in c..k : trace[m].op # "ret"
        /\ Len(Ordered) <= Len(ExpectedOps)
        /\ \A k \in 1..Len(Ordered) : Ordered[k].op = ExpectedOps[k]
        /\ Len(calls) = Cardinality({k \in 1..Len(Ordered) : Ordered[k].op = "call"})
        /\ \A k \in 1..Len(calls) :
              /\ calls[k].href = <<dp.DSC, dp.Debian, dp.Orig>>[k]
              /\ Ordered[2 * k] = Ev("call", calls[k].url)
              /\ 2 * k + 1 <= Len(Ordered) => Ordered[2 * k + 1] = Ev("ret", calls[k].url)

\* witness of C6: dpkg-source runs after three downloads to three different URLs, each with its GET
C6_Witness ==
    /\ pc = "wait"
    /\ Len(calls) = 3
    /\ \A k \in 1..3 : Len(calls[k].gets) = 1
    /\ Cardinality({calls[k].url : k \in 1..3}) = 3
    /\ trace[Len(trace)].op = "exec"

\* C7: once extract waits for the subprocess, the wait returns (with or without an
\* error): whatever the subprocess writes, the reader drains the pipe, the
\* subprocess is never blocked forever on a write, and it exits.
C7_WaitReturns == (pc = "wait") ~> (pc \in {"returned", "exited"})

\* C8: when extract has returned, every line the subprocess wrote has been logged.
C8_AllLinesLogged == pc = "returned" => logged = procOut

\* C9: a download that ended the process after creating its file leaves the file on
\* disk as incomplete as it was, and every later call for the same URL and package
\* name performs no GET and returns the file's path without an error.
C9_FailedDownloadNeverRefetched ==
    \A i \in 1..Len(calls) :
        calls[i].fatal =>
            /\ calls[i].path \in DOMAIN fs.files
            /\ fs.files[calls[i].path].state = calls[i].after
            /\ calls[i].after \in {"empty", "truncated"}
            /\ \A j \in (i + 1)..Len(calls) :
                  (calls[j].url = calls[i].url /\ calls[j].pkg = calls[i].pkg) =>
                     /\ calls[j].gets = <<>>
                     /\ ~calls[j].fatal
                     /\ calls[j].path = calls[i].path
                     /\ calls[j].after = calls[i].after

\* witness of C9: a download failed while copying the body, another URL was downloaded, and a later
\* call for the first URL and package name found the truncated file and skipped it
C9_Witness ==
    \E i, j \in 1..Len(calls) :
        /\ i + 1 < j
        /\ calls[i].fatal
        /\ calls[i].after = "truncated"
        /\ calls[j].url = calls[i].url
        /\ calls[j].pkg = calls[i].pkg
        /\ calls[j].gets = <<>>
        /\ fs.files[calls[j].path].state = "truncated"

\* C10: DscPath is unset or the path the download of the description file returned;
\* it stays unset when the index page has no description file.
C10_DscPathOnlyFromDescription ==
    Classified =>
        /\ Absent("DSC") => dp.DscPath = ""
        /\ dp.DscPath # "" =>
              \E k \in 1..Len(calls) :
                 /\ calls[k].href = dp.DSC
                 /\ RoleOf(calls[k].href) = "DSC"
                 /\ calls[k].path = dp.DscPath

====
